---- MODULE Spec2Model ----
\* A model of blacksheep/server/templating.py: the memoized template-name
\* normalizer, the response builder, the environment provisioner
\* (use_templates) with the view functions it returns, and the direct helpers
\* view / view_async.
EXTENDS Integers, Sequences, FiniteSets, TLC

\* ------------------------------------------------------------------ bounds
MaxThreads == 2      \* callers that may have a call in progress
MaxEnvs == 2         \* Environment objects ever constructed
MaxCalls == 3        \* use_templates calls, where provisioning is the subject
MaxSetups == 1       \* use_templates calls, where the view functions are the subject
MaxRaceCalls == 2    \* use_templates calls, where they run on threads
MaxNameLen == 6      \* longest raw name given to the normalizer (SpecName)
MaxHtmlLen == 2      \* longest rendered string, in code points

\* ----------------------------------------------------------- program constants
lru_maxsize == 1200
STATUS_OK == 200

None == "None"

\* ------------------------------------------------------------------ strings
\* A str is a sequence of one-character strings; bytes are sequences of 0..255.
Ext == <<".", "h", "t", "m", "l">>

Chars == {".", "h", "t", "m", "l"}

StrUpTo(n) == UNION {[1..k -> Chars] : k \in 0..n}

\* str.endswith
endswith(s, suffix) ==
    /\ Len(s) >= Len(suffix)
    /\ SubSeq(s, Len(s) - Len(suffix) + 1, Len(s)) = suffix

\* Faulty variant: the negation in the test of line 9 dropped.
template_name_unnegated(name) ==
    IF endswith(name, Ext) THEN name \o Ext ELSE name

\* The body of template_name (the function the lru_cache wraps).
template_name(name) ==
    IF ~endswith(name, Ext) THEN name \o Ext ELSE name

\* --------------------------------------------------------------- UTF-8, Response
\* Code points a rendered string is made of: one per UTF-8 length class, and a
\* lone surrogate (a Python str may hold one; str.encode('utf8') rejects it).
CodePoints == {104, 233, 8364, 128512, 55296}

Html == UNION {[1..k -> CodePoints] : k \in 0..MaxHtmlLen}

IsSurrogate(cp) == cp >= 55296 /\ cp <= 57343

\* One code point as UTF-8 bytes.
encode_cp(cp) ==
    IF cp < 128 THEN <<cp>>
    ELSE IF cp < 2048 THEN <<192 + (cp \div 64), 128 + (cp % 64)>>
    ELSE IF cp < 65536
         THEN <<224 + (cp \div 4096), 128 + ((cp \div 64) % 64), 128 + (cp % 64)>>
    ELSE <<240 + (cp \div 262144), 128 + ((cp \div 4096) % 64),
           128 + ((cp \div 64) % 64), 128 + (cp % 64)>>

RECURSIVE encode_all(_)
encode_all(s) ==
    IF s = <<>> THEN <<>> ELSE encode_cp(Head(s)) \o encode_all(Tail(s))

\* Faulty variant: an encoding that keeps one byte per code point (latin-1 style).
str_encode_latin1(s) ==
    IF \E i \in 1..Len(s) : IsSurrogate(s[i])
    THEN [ok |-> FALSE, exc |-> "UnicodeEncodeError"]
    ELSE [ok |-> TRUE, bytes |-> [i \in 1..Len(s) |-> s[i] % 256]]

\* html.encode('utf8'): the bytes, or UnicodeEncodeError on a surrogate.
str_encode(s) ==
    IF \E i \in 1..Len(s) : IsSurrogate(s[i])
    THEN [ok |-> FALSE, exc |-> "UnicodeEncodeError"]
    ELSE [ok |-> TRUE, bytes |-> encode_all(s)]

\* Response(200, [(b'Cache-Control', b'no-cache')]).with_content(Content(type, body))
Response(status, headers, content) ==
    [status |-> status, headers |-> headers, content |-> content]

Content(type, body) == [type |-> type, body |-> body]

\* What a call ends with: nothing yet, a Response, an exception, or (for
\* use_templates) a view function, named by its place in views.
NoResponse == Response(0, <<>>, Content("", <<>>))

NoOut == [kind |-> "none", resp |-> NoResponse, exc |-> None, view |-> 0]

Raised(exc) == [NoOut EXCEPT !.kind = "raised", !.exc = exc]

\* get_response(html): the Response returned, or the exception html.encode raises.
get_response(html) ==
    LET enc == str_encode(html) IN
    IF enc.ok
    THEN [NoOut EXCEPT !.kind = "response",
                       !.resp = Response(STATUS_OK, << <<"Cache-Control", "no-cache">> >>,
                                         Content("text/html; charset=utf-8", enc.bytes))]
    ELSE Raised(enc.exc)

\* ------------------------------------------------------------- template engine
\* A loader is modelled by the set of template names it can find.
LoaderA == {<<"h">> \o Ext}

LoaderB == {<<"h">> \o Ext, <<"m">> \o Ext}

Loaders == {LoaderA, LoaderB}

\* Names handed to the view functions.
ViewNames == {<<"h">>, <<"h">> \o Ext, <<"m">>, <<"m">> \o Ext}

RegistryKeys == {"jinja_environment", "jinja"}

\* Environment(loader=..., autoescape=select_autoescape(['html', 'xml']),
\*             auto_reload=app.debug, enable_async=enable_async)
\* globals_app is env.globals.get('app'); by is a history field (who constructed).
Environment(loader, auto_reload, enable_async, by) ==
    [loader |-> loader, autoescape |-> {"html", "xml"}, auto_reload |-> auto_reload,
     enable_async |-> enable_async, globals_app |-> None, by |-> by]

\* What a render (sync or async) can end with: a string, or a failure of the
\* template engine (rendering error, argument mismatch).
RenderOutcomes ==
    {[ok |-> TRUE, html |-> h, exc |-> None] : h \in Html}
    \cup {[ok |-> FALSE, html |-> <<>>, exc |-> x] : x \in {"TemplateError", "TypeError"}}

\* ------------------------------------------------------------------ state
VARIABLES
    sched,      \* "cooperative" (the host's single-threaded loop) or "threads"
    debug,      \* app.debug
    services,   \* app.services restricted to the two keys; 0 is absent
    heap,       \* the Environment objects constructed so far, by identity 1..Len
    views,      \* the view functions returned by completed use_templates calls
    call,       \* per caller: its current or last call (frame, locals, outcome)
    cache,      \* template_name's lru_cache, least recently used first
    raw,        \* SpecName: the raw name under test
    tn          \* SpecName: the last call of the memoized template_name

vars == <<sched, debug, services, heap, views, call, cache, raw, tn>>

model_vars == <<sched, debug, services, heap, views, call>>

name_vars == <<cache, raw, tn>>

Threads == 1..MaxThreads

\* Who calls what under the event loop: the request handlers call the view
\* functions, the application's set-up code calls use_templates.
Handler == {1}

Handlers == {1, 2}

Setup == {2}

\* A call frame: the function, where it stands, its arguments and locals, what it
\* asked of the template engine (history), and what it ended with.
NoCall ==
    [fn |-> None, pc |-> "idle", env |-> 0, used |-> 0, loader |-> {},
     enable_async |-> FALSE, built |-> FALSE, name |-> <<>>, asked |-> <<>>,
     debug0 |-> FALSE, template |-> <<0, <<>>>>, gets |-> 0, renders |-> 0,
     rstate |-> "none", html |-> <<>>, failed_with |-> None, out |-> NoOut]

Running(u) == call[u].pc \in {"l30", "l38", "l39", "l40", "l42"}

\* Under the host's cooperative scheduling a synchronous function runs to its
\* end before anything else runs; only an awaiting coroutine can be overtaken.
CanStep(t) == sched = "threads" \/ \A u \in Threads \ {t} : ~Running(u)

Quiescent == sched = "threads" \/ \A u \in Threads : ~Running(u)

InitModel(s) ==
    /\ sched = s
    /\ debug \in BOOLEAN
    /\ services = [k \in RegistryKeys |-> 0]
    /\ heap = <<>>
    /\ views = <<>>
    /\ call = [t \in Threads |-> NoCall]

NoNameCall == [called |-> FALSE, arg |-> <<>>, ret |-> <<>>, hit |-> FALSE, again |-> FALSE]

InitName0 ==
    /\ cache = <<>>
    /\ raw = <<>>
    /\ tn = NoNameCall

Init == InitModel("cooperative") /\ InitName0

InitThreads == InitModel("threads") /\ InitName0

\* ------------------------------------------------------------- use_templates
\* Line 29: env = app.services['jinja_environment'] (absent reads as None).
services_get(key) == services[key]

use_templates_29(t, loader, enable_async) ==
    /\ call[t].pc = "idle"
    /\ CanStep(t)
    /\ call' = [call EXCEPT ![t] =
                   [NoCall EXCEPT !.fn = "use_templates", !.pc = "l30",
                                  !.env = services_get("jinja_environment"),
                                  !.loader = loader, !.enable_async = enable_async,
                                  !.debug0 = debug]]
    /\ UNCHANGED <<sched, debug, services, heap, views>>
    /\ UNCHANGED name_vars

\* Faulty variant: the test of line 30 dropped, an environment constructed on every call.
use_templates_30_always(t) ==
    /\ call[t].pc = "l30"
    /\ CanStep(t)
    /\ Len(heap) < MaxEnvs
    /\ heap' = Append(heap, Environment(call[t].loader, debug,
                                        call[t].enable_async, "use_templates"))
    /\ call' = [call EXCEPT ![t].env = Len(heap) + 1, ![t].built = TRUE,
                            ![t].pc = "l38"]
    /\ UNCHANGED <<sched, debug, services, views>>
    /\ UNCHANGED name_vars

\* Variant that the code is not: the registry looked up again before constructing.
use_templates_30_recheck(t) ==
    /\ call[t].pc = "l30"
    /\ CanStep(t)
    /\ IF call[t].env = 0 /\ services["jinja_environment"] = 0
       THEN /\ Len(heap) < MaxEnvs
            /\ heap' = Append(heap, Environment(call[t].loader, debug,
                                                call[t].enable_async, "use_templates"))
            /\ call' = [call EXCEPT ![t].env = Len(heap) + 1, ![t].built = TRUE,
                                    ![t].pc = "l38"]
       ELSE /\ call' = [call EXCEPT ![t].pc = "l42",
                                    ![t].env = IF call[t].env = 0
                                               THEN services["jinja_environment"]
                                               ELSE call[t].env]
            /\ UNCHANGED heap
    /\ UNCHANGED <<sched, debug, services, views>>
    /\ UNCHANGED name_vars

\* Lines 30-36: if not env: env = Environment(...).
use_templates_30(t) ==
    /\ call[t].pc = "l30"
    /\ CanStep(t)
    /\ IF call[t].env = 0
       THEN /\ Len(heap) < MaxEnvs
            /\ heap' = Append(heap, Environment(call[t].loader, debug,
                                                call[t].enable_async, "use_templates"))
            /\ call' = [call EXCEPT ![t].env = Len(heap) + 1, ![t].built = TRUE,
                                    ![t].pc = "l38"]
       ELSE /\ call' = [call EXCEPT ![t].pc = "l42"]
            /\ UNCHANGED heap
    /\ UNCHANGED <<sched, debug, services, views>>
    /\ UNCHANGED name_vars

\* Line 38: app.services['jinja_environment'] = env
use_templates_38(t) ==
    /\ call[t].pc = "l38"
    /\ CanStep(t)
    /\ services' = [services EXCEPT !["jinja_environment"] = call[t].env]
    /\ call' = [call EXCEPT ![t].pc = "l39"]
    /\ UNCHANGED <<sched, debug, heap, views>>
    /\ UNCHANGED name_vars

\* Faulty variant: the second store left out.
use_templates_39_skip(t) ==
    /\ call[t].pc = "l39"
    /\ CanStep(t)
    /\ call' = [call EXCEPT ![t].pc = "l40"]
    /\ UNCHANGED <<sched, debug, services, heap, views>>
    /\ UNCHANGED name_vars

\* Line 39: app.services['jinja'] = env
use_templates_39(t) ==
    /\ call[t].pc = "l39"
    /\ CanStep(t)
    /\ services' = [services EXCEPT !["jinja"] = call[t].env]
    /\ call' = [call EXCEPT ![t].pc = "l40"]
    /\ UNCHANGED <<sched, debug, heap, views>>
    /\ UNCHANGED name_vars

\* Line 40: env.globals['app'] = app
use_templates_40(t) ==
    /\ call[t].pc = "l40"
    /\ CanStep(t)
    /\ heap' = [heap EXCEPT ![call[t].env].globals_app = "app"]
    /\ call' = [call EXCEPT ![t].pc = "l42"]
    /\ UNCHANGED <<sched, debug, services, views>>
    /\ UNCHANGED name_vars

\* Faulty variant: the kind of view chosen by the environment's own async flag.
returned_view_by_env(enable_async, env) ==
    [fn |-> IF heap[env].enable_async THEN "async_view" ELSE "sync_view", env |-> env]

\* Lines 42-51: the closure returned, bound to the local env.
returned_view(enable_async, env) ==
    [fn |-> IF enable_async THEN "async_view" ELSE "sync_view", env |-> env]

use_templates_42(t) ==
    /\ call[t].pc = "l42"
    /\ CanStep(t)
    /\ views' = Append(views,
                       [view |-> returned_view(call[t].enable_async, call[t].env),
                        loader |-> call[t].loader,
                        enable_async |-> call[t].enable_async,
                        built |-> call[t].built,
                        debug0 |-> call[t].debug0])
    /\ call' = [call EXCEPT ![t].pc = "idle",
                            ![t].out = [NoOut EXCEPT !.kind = "view",
                                                     !.view = Len(views) + 1]]
    /\ UNCHANGED <<sched, debug, services, heap>>
    /\ UNCHANGED name_vars

\* ------------------------------------------------------- the application's side
\* app.debug is an attribute the application's owner may set at any time.
SetDebug(b) ==
    /\ Quiescent
    /\ debug # b
    /\ debug' = b
    /\ UNCHANGED <<sched, services, heap, views, call>>
    /\ UNCHANGED name_vars

\* A caller of the direct helpers constructs an environment of its own.
CallerEnvironment(loader, enable_async) ==
    /\ Quiescent
    /\ Len(heap) < MaxEnvs
    /\ heap' = Append(heap, Environment(loader, FALSE, enable_async, "caller"))
    /\ UNCHANGED <<sched, debug, services, views, call>>
    /\ UNCHANGED name_vars

\* ------------------------------------------------------------ view functions
\* env.get_template(name): the compiled template, or TemplateNotFound.
get_template(e, name) ==
    IF name \in heap[e].loader
    THEN [found |-> TRUE, template |-> <<e, name>>]
    ELSE [found |-> FALSE, template |-> <<0, name>>]

\* Faulty variant: the environment taken from the registry when one is stored there.
sync_call_registry(t, fn, e, name, o) ==
    LET asked == template_name(name)
        stored == services["jinja_environment"]
        used == IF stored # 0 THEN stored ELSE e
        tpl == get_template(used, asked)
    IN  call' = [call EXCEPT ![t] =
            [NoCall EXCEPT !.fn = fn, !.env = e, !.used = used, !.name = name,
                           !.asked = asked, !.template = tpl.template, !.gets = 1,
                           !.renders = IF tpl.found THEN 1 ELSE 0,
                           !.rstate = IF ~tpl.found THEN "none"
                                      ELSE IF o.ok THEN "ok" ELSE "failed",
                           !.html = IF tpl.found /\ o.ok THEN o.html ELSE <<>>,
                           !.failed_with = IF ~tpl.found THEN "TemplateNotFound"
                                           ELSE IF ~o.ok THEN o.exc ELSE None,
                           !.out = IF ~tpl.found THEN Raised("TemplateNotFound")
                                   ELSE IF ~o.ok THEN Raised(o.exc)
                                   ELSE get_response(o.html)]]

\* get_response(render_template(env.get_template(template_name(name)), ...)) with
\* the render ending as o: lines 49 and 58-59, run to their end.
sync_call(t, fn, e, name, o) ==
    LET asked == template_name(name)
        tpl == get_template(e, asked)
    IN  call' = [call EXCEPT ![t] =
            [NoCall EXCEPT !.fn = fn, !.env = e, !.used = e, !.name = name,
                           !.asked = asked, !.template = tpl.template, !.gets = 1,
                           !.renders = IF tpl.found THEN 1 ELSE 0,
                           !.rstate = IF ~tpl.found THEN "none"
                                      ELSE IF o.ok THEN "ok" ELSE "failed",
                           !.html = IF tpl.found /\ o.ok THEN o.html ELSE <<>>,
                           !.failed_with = IF ~tpl.found THEN "TemplateNotFound"
                                           ELSE IF ~o.ok THEN o.exc ELSE None,
                           !.out = IF ~tpl.found THEN Raised("TemplateNotFound")
                                   ELSE IF ~o.ok THEN Raised(o.exc)
                                   ELSE get_response(o.html)]]

\* Faulty variant: the response built before the awaited render has completed.
async_call_eager(t, fn, e, name) ==
    LET asked == template_name(name)
        tpl == get_template(e, asked)
    IN  call' = [call EXCEPT ![t] =
            [NoCall EXCEPT !.fn = fn, !.env = e, !.used = e, !.name = name,
                           !.asked = asked, !.template = tpl.template, !.gets = 1,
                           !.failed_with = IF tpl.found THEN None ELSE "TemplateNotFound",
                           !.pc = IF tpl.found THEN "await" ELSE "idle",
                           !.renders = IF tpl.found THEN 1 ELSE 0,
                           !.rstate = IF tpl.found THEN "pending" ELSE "none",
                           !.out = IF tpl.found THEN get_response(<<104>>)
                                   ELSE Raised("TemplateNotFound")]]

\* Faulty variant: the name handed to get_template as given, not normalized.
async_call_raw_name(t, fn, e, name) ==
    LET asked == name
        tpl == get_template(e, asked)
    IN  call' = [call EXCEPT ![t] =
            [NoCall EXCEPT !.fn = fn, !.env = e, !.used = e, !.name = name,
                           !.asked = asked, !.template = tpl.template, !.gets = 1,
                           !.failed_with = IF tpl.found THEN None ELSE "TemplateNotFound",
                           !.pc = IF tpl.found THEN "await" ELSE "idle",
                           !.renders = IF tpl.found THEN 1 ELSE 0,
                           !.rstate = IF tpl.found THEN "pending" ELSE "none",
                           !.out = IF tpl.found THEN NoOut
                                   ELSE Raised("TemplateNotFound")]]

\* The coroutine up to its await: template_name, get_template, then
\* render_template_async suspended in template.render_async (lines 44, 64-65, 25).
async_call(t, fn, e, name) ==
    LET asked == template_name(name)
        tpl == get_template(e, asked)
    IN  call' = [call EXCEPT ![t] =
            [NoCall EXCEPT !.fn = fn, !.env = e, !.used = e, !.name = name,
                           !.asked = asked, !.template = tpl.template, !.gets = 1,
                           !.failed_with = IF tpl.found THEN None ELSE "TemplateNotFound",
                           !.pc = IF tpl.found THEN "await" ELSE "idle",
                           !.renders = IF tpl.found THEN 1 ELSE 0,
                           !.rstate = IF tpl.found THEN "pending" ELSE "none",
                           !.out = IF tpl.found THEN NoOut
                                   ELSE Raised("TemplateNotFound")]]

\* Faulty variant: a failed render swallowed and an empty page returned.
async_resume_swallow(t, o) ==
    call' = [call EXCEPT ![t].pc = "idle",
                         ![t].rstate = IF o.ok THEN "ok" ELSE "failed",
                         ![t].html = IF o.ok THEN o.html ELSE <<>>,
                         ![t].failed_with = IF o.ok THEN None ELSE o.exc,
                         ![t].out = IF o.ok THEN get_response(o.html)
                                    ELSE get_response(<<>>)]

\* The awaited render ends as o; the coroutine resumes and wraps or re-raises.
async_resume(t, o) ==
    call' = [call EXCEPT ![t].pc = "idle",
                         ![t].rstate = IF o.ok THEN "ok" ELSE "failed",
                         ![t].html = IF o.ok THEN o.html ELSE <<>>,
                         ![t].failed_with = IF o.ok THEN None ELSE o.exc,
                         ![t].out = IF o.ok THEN get_response(o.html)
                                    ELSE Raised(o.exc)]

\* Lines 48-49: the closure sync_view of the v-th completed use_templates call.
sync_view(t, v, name, o) ==
    /\ call[t].pc = "idle"
    /\ CanStep(t)
    /\ v \in 1..Len(views)
    /\ views[v].view.fn = "sync_view"
    /\ sync_call(t, "sync_view", views[v].view.env, name, o)
    /\ UNCHANGED <<sched, debug, services, heap, views>>
    /\ UNCHANGED name_vars

\* Lines 43-44: the closure async_view, up to its await.
async_view(t, v, name) ==
    /\ call[t].pc = "idle"
    /\ CanStep(t)
    /\ v \in 1..Len(views)
    /\ views[v].view.fn = "async_view"
    /\ async_call(t, "async_view", views[v].view.env, name)
    /\ UNCHANGED <<sched, debug, services, heap, views>>
    /\ UNCHANGED name_vars

\* Lines 54-59: view(jinja_environment, name, ...).
view(t, jinja_environment, name, o) ==
    /\ call[t].pc = "idle"
    /\ CanStep(t)
    /\ jinja_environment \in 1..Len(heap)
    /\ sync_call(t, "view", jinja_environment, name, o)
    /\ UNCHANGED <<sched, debug, services, heap, views>>
    /\ UNCHANGED name_vars

\* Lines 62-65: view_async(jinja_environment, name, ...), up to its await.
view_async(t, jinja_environment, name) ==
    /\ call[t].pc = "idle"
    /\ CanStep(t)
    /\ jinja_environment \in 1..Len(heap)
    /\ async_call(t, "view_async", jinja_environment, name)
    /\ UNCHANGED <<sched, debug, services, heap, views>>
    /\ UNCHANGED name_vars

\* Lines 24-25, then the rest of line 44 or 64: the awaited render completes.
render_async_done(t, o) ==
    /\ call[t].pc = "await"
    /\ CanStep(t)
    /\ async_resume(t, o)
    /\ UNCHANGED <<sched, debug, services, heap, views>>
    /\ UNCHANGED name_vars

\* ------------------------------------------------------------ specifications
\* Calls of use_templates begun so far.
Begun == Len(views) + Cardinality({u \in Threads : Running(u)})

\* The steps of use_templates, for the callers in T, at most n calls in all.
Provisioning(T, n) ==
    \/ \E t \in T, l \in Loaders, a \in BOOLEAN :
          Begun < n /\ use_templates_29(t, l, a)
    \/ \E t \in T : use_templates_30(t)
    \/ \E t \in T : use_templates_38(t)
    \/ \E t \in T : use_templates_39(t)
    \/ \E t \in T : use_templates_40(t)
    \/ \E t \in T : use_templates_42(t)

\* The synchronous view functions, for the callers in T, renders ending in Os.
SyncViewing(T, Os) ==
    \/ \E t \in T, v \in 1..MaxSetups, n \in ViewNames, o \in Os : sync_view(t, v, n, o)
    \/ \E t \in T, e \in 1..MaxEnvs, n \in ViewNames, o \in Os : view(t, e, n, o)

\* The suspend-capable view functions.
AsyncViewing(T, Os) ==
    \/ \E t \in T, v \in 1..MaxSetups, n \in ViewNames : async_view(t, v, n)
    \/ \E t \in T, e \in 1..MaxEnvs, n \in ViewNames : view_async(t, e, n)
    \/ \E t \in T, o \in Os : render_async_done(t, o)

\* Renders that end in a one-character string (ASCII, or a lone surrogate), or fail.
PlainOutcomes ==
    {o \in RenderOutcomes : o.ok => o.html \in {<<104>>, <<55296>>}}

Next ==
    \/ Provisioning(Setup, MaxSetups)
    \/ CallerEnvironment(LoaderA, FALSE)
    \/ SyncViewing(Handler, PlainOutcomes)
    \/ AsyncViewing(Handler, PlainOutcomes)

\* The host's scheduling: one event loop, handlers run one at a time.
Spec == Init /\ [][Next]_vars

\* use_templates called again and again, the debug flag changing in between.
NextProvision ==
    \/ Provisioning(Threads, MaxCalls)
    \/ \E b \in BOOLEAN : SetDebug(b)

\* Under the event loop the calls never overlap.
SpecProvision == Init /\ [][NextProvision]_vars

NextThreads == Provisioning(Threads, MaxRaceCalls)

\* Callers on preemptive threads: the steps of use_templates interleave.
SpecThreads == InitThreads /\ [][NextThreads]_vars

\* Two request handlers calling view functions side by side, renders succeeding.
OkOutcomes == {o \in RenderOutcomes : o.ok /\ o.html = <<104>>}

NextResolve ==
    \/ Provisioning(Setup, MaxSetups)
    \/ SyncViewing(Handlers, OkOutcomes)
    \/ AsyncViewing(Handlers, OkOutcomes)

SpecResolve == Init /\ [][NextResolve]_vars

\* One handler calling the direct helper view on environments of its own, the
\* render ending in every string of Html or failing.
NextHtml ==
    \/ CallerEnvironment(LoaderA, FALSE)
    \/ \E t \in Handler, e \in 1..MaxEnvs, n \in {<<"h">>, <<"m">>},
          o \in RenderOutcomes :
          view(t, e, n, o)

SpecHtml == Init /\ [][NextHtml]_vars

\* ------------------------------------------------- the memoized template_name
\* functools.lru_cache(1200) around template_name: a hit returns the stored value
\* and makes the entry the most recently used; a miss calls the function, stores
\* the result and evicts the least recently used entry beyond maxsize.
cache_index(key) ==
    IF \E i \in 1..Len(cache) : cache[i].key = key
    THEN CHOOSE i \in 1..Len(cache) : cache[i].key = key
    ELSE 0

cache_without(i) == SubSeq(cache, 1, i - 1) \o SubSeq(cache, i + 1, Len(cache))

cached_template_name(name, again) ==
    LET i == cache_index(name) IN
    IF i > 0
    THEN /\ tn' = [called |-> TRUE, arg |-> name, ret |-> cache[i].val,
                   hit |-> TRUE, again |-> again]
         /\ cache' = Append(cache_without(i), cache[i])
    ELSE LET result == template_name(name)
             filled == Append(cache, [key |-> name, val |-> result])
         IN  /\ tn' = [called |-> TRUE, arg |-> name, ret |-> result,
                       hit |-> FALSE, again |-> again]
             /\ cache' = IF Len(filled) > lru_maxsize THEN Tail(filled) ELSE filled

\* template_name(raw)
NormalizeRaw ==
    /\ cached_template_name(raw, FALSE)
    /\ UNCHANGED raw
    /\ UNCHANGED model_vars

\* template_name(r), r the value the previous call returned
NormalizeAgain ==
    /\ tn.called
    /\ cached_template_name(tn.ret, TRUE)
    /\ UNCHANGED raw
    /\ UNCHANGED model_vars

InitName ==
    /\ sched = "cooperative"
    /\ debug = FALSE
    /\ services = [k \in RegistryKeys |-> 0]
    /\ heap = <<>>
    /\ views = <<>>
    /\ call = [t \in Threads |-> NoCall]
    /\ cache = <<>>
    /\ raw \in StrUpTo(MaxNameLen)
    /\ tn = NoNameCall

NextName == NormalizeRaw \/ NormalizeAgain

SpecName == InitName /\ [][NextName]_vars

\* ================================================================== claims
ViewFns == {"view", "view_async", "sync_view", "async_view"}

\* The code points a byte string stands for when read as UTF-8 (RFC 3629:
\* lead byte, continuation bytes, shortest form, no surrogates); <<-1>> where
\* the bytes are not well-formed.
RECURSIVE utf8_decode(_)
utf8_decode(b) ==
    IF b = <<>> THEN <<>>
    ELSE LET b1 == b[1]
             n == IF b1 < 128 THEN 1
                  ELSE IF b1 >= 192 /\ b1 < 224 THEN 2
                  ELSE IF b1 >= 224 /\ b1 < 240 THEN 3
                  ELSE IF b1 >= 240 /\ b1 < 248 THEN 4
                  ELSE 0
         IN  IF n = 0 \/ Len(b) < n THEN <<-1>>
             ELSE IF \E i \in 2..n : b[i] < 128 \/ b[i] >= 192 THEN <<-1>>
             ELSE LET cp == IF n = 1 THEN b1
                            ELSE IF n = 2 THEN (b1 - 192) * 64 + (b[2] - 128)
                            ELSE IF n = 3
                                 THEN (b1 - 224) * 4096 + (b[2] - 128) * 64 + (b[3] - 128)
                            ELSE (b1 - 240) * 262144 + (b[2] - 128) * 4096
                                 + (b[3] - 128) * 64 + (b[4] - 128)
                      shortest == \/ n = 1
                                  \/ n = 2 /\ cp >= 128
                                  \/ n = 3 /\ cp >= 2048 /\ ~(cp >= 55296 /\ cp <= 57343)
                                  \/ n = 4 /\ cp >= 65536 /\ cp <= 1114111
                  IN  IF ~shortest THEN <<-1>>
                      ELSE <<cp>> \o utf8_decode(SubSeq(b, n + 1, Len(b)))

\* The response the specification describes for the rendered string html.
IsHtmlResponse(out, html) ==
    /\ out.kind = "response"
    /\ out.resp.status = 200
    /\ out.resp.headers = << <<"Cache-Control", "no-cache">> >>
    /\ out.resp.content.type = "text/html; charset=utf-8"
    /\ utf8_decode(out.resp.content.body) = html

HasSurrogate(html) == \E i \in 1..Len(html) : html[i] >= 55296 /\ html[i] <= 57343

C4_Normalize ==
    tn.called =>
        /\ IF endswith(tn.arg, <<".", "h", "t", "m", "l">>)
           THEN tn.ret = tn.arg
           ELSE /\ Len(tn.ret) = Len(tn.arg) + 5
                /\ SubSeq(tn.ret, 1, Len(tn.arg)) = tn.arg
                /\ SubSeq(tn.ret, Len(tn.arg) + 1, Len(tn.ret)) = <<".", "h", "t", "m", "l">>
        /\ tn.again => tn.ret = tn.arg
        /\ \A i \in 1..Len(cache) :
              cache[i].key = tn.arg => cache[i].val = tn.ret

C4_Witness ==
    /\ tn.called
    /\ tn.again
    /\ tn.hit
    /\ raw = <<"h", "t", "m", "l">>
    /\ tn.ret = <<"h", "t", "m", "l", ".", "h", "t", "m", "l">>
    /\ Len(cache) = 2

\* Environments constructed by use_templates.
BuiltEnvs == {e \in 1..Len(heap) : heap[e].by = "use_templates"}

\* C1: with calls that do not overlap, only the first use_templates call
\* constructs an environment; every later call finds the stored one (also while
\* it runs), both registry entries stay bound to it, and every returned view is
\* bound to it.
C1_FirstCallOnly ==
    /\ Cardinality(BuiltEnvs) <= 1
    /\ \A k \in 1..Len(views) :
          /\ views[k].built <=> (k = 1)
          /\ views[k].view.env = views[1].view.env
          /\ views[k].view.env \in BuiltEnvs
          /\ services["jinja_environment"] = views[1].view.env
          /\ services["jinja"] = views[1].view.env
    /\ \A t \in Threads :
          (Len(views) >= 1 /\ Running(t))
              => call[t].env = views[1].view.env /\ ~call[t].built

C1_Witness ==
    /\ Len(views) >= 3
    /\ views[2].loader # views[1].loader
    /\ views[3].enable_async # views[1].enable_async
    /\ views[3].view.env = views[1].view.env

\* C9: whenever no use_templates call is in progress the two registry keys are
\* bound alike, and once a call has completed they hold an environment whose
\* globals map 'app' to the application, that autoescapes html and xml, and whose
\* auto_reload is the debug flag as it was at the first call.
C9_RegistryAfterCall ==
    (\A t \in Threads : ~Running(t)) =>
        /\ services["jinja_environment"] = services["jinja"]
        /\ Len(views) >= 1 =>
              LET e == services["jinja_environment"] IN
              /\ e \in 1..Len(heap)
              /\ heap[e].globals_app = "app"
              /\ heap[e].autoescape = {"html", "xml"}
              /\ heap[e].auto_reload = views[1].debug0

C9_Witness ==
    /\ \A t \in Threads : ~Running(t)
    /\ Len(views) >= 2
    /\ views[2].debug0 # views[1].debug0
    /\ debug # views[1].debug0
    /\ heap[services["jinja"]].auto_reload = views[1].debug0
    /\ heap[services["jinja"]].globals_app = "app"

\* C10: a call returns the suspend-capable view exactly when its own
\* enable_async argument is true; the stored environment keeps the loader and
\* the async capability of the first call, whatever later calls pass.
C10_ViewKindFollowsArgument ==
    \A k \in 1..Len(views) :
        /\ views[k].view.fn \in {"sync_view", "async_view"}
        /\ (views[k].view.fn = "async_view") <=> views[k].enable_async
        /\ views[k].view.env = services["jinja_environment"]
        /\ heap[views[k].view.env].loader = views[1].loader
        /\ heap[views[k].view.env].enable_async = views[1].enable_async

C10_Witness ==
    /\ Len(views) >= 2
    /\ ~views[1].enable_async
    /\ views[2].enable_async
    /\ views[2].loader # views[1].loader
    /\ views[2].view.fn = "async_view"
    /\ ~heap[views[2].view.env].enable_async
    /\ heap[views[2].view.env].loader = views[1].loader

\* The step of a call that read the registry as empty: it constructs.
C8_Step ==
    \A t \in Threads :
        (call[t].pc = "l30" /\ call[t].env = 0 /\ call'[t] # call[t])
            => /\ call'[t].built
               /\ Len(heap') = Len(heap) + 1
               /\ call'[t].env = Len(heap')

\* Two completed calls that both constructed.
C8_State ==
    \A j, k \in 1..Len(views) :
        (j < k /\ views[j].built /\ views[k].built)
            => /\ views[j].view.env # views[k].view.env
               /\ Cardinality(BuiltEnvs) >= 2
               /\ services["jinja_environment"] \in BuiltEnvs
               /\ \E i \in {j, k} : views[i].view.env # services["jinja_environment"]

\* C8: with the steps of two calls interleaved, a call that read the registry as
\* empty constructs an environment at its next step whatever the registry holds
\* by then; and whenever two completed calls have both constructed, more than one
\* environment exists for the application, the registry holds one of them, and a
\* returned view is bound to an environment that is not the one in the registry.
C8_RaceOverwrites == []C8_State /\ [][C8_Step]_vars

C8_Witness ==
    /\ \A t \in Threads : ~Running(t)
    /\ Len(views) = 2
    /\ views[1].built /\ views[2].built
    /\ Cardinality(BuiltEnvs) = 2
    /\ services["jinja_environment"] = views[2].view.env
    /\ views[1].view.env # services["jinja_environment"]

\* What the synchronous path yields for a rendered string: the response, or the
\* encoding error when the string has no UTF-8 encoding.
SyncResultFor(out, html) ==
    IF HasSurrogate(html)
    THEN out = Raised("UnicodeEncodeError")
    ELSE IsHtmlResponse(out, html)

C5_SameTemplate ==
    \A t, u \in Threads :
        ( /\ call[t].fn \in ViewFns
          /\ call[u].fn \in ViewFns
          /\ ~endswith(call[t].name, <<".", "h", "t", "m", "l">>)
          /\ call[u].name = call[t].name \o <<".", "h", "t", "m", "l">> )
            => /\ call[t].asked = call[u].asked
               /\ call[t].asked = call[u].name
               /\ call[t].used = call[u].used => call[t].template = call[u].template

C5_Witness ==
    /\ call[1].fn = "view"
    /\ call[2].fn \in {"sync_view", "async_view"}
    /\ call[1].name = <<"h">>
    /\ call[2].name = <<"h", ".", "h", "t", "m", "l">>
    /\ call[1].used = call[2].used
    /\ call[1].template = <<call[1].used, <<"h", ".", "h", "t", "m", "l">>>>
    /\ call[1].out.kind = "response"
    /\ call[2].out.kind = "response"

\* A step of one of the direct helpers.
C6_Step ==
    \A t \in Threads :
        (call'[t] # call[t] /\ call'[t].fn \in {"view", "view_async"})
            => /\ services' = services
               /\ heap' = heap
               /\ call'[t].used = call'[t].env
               /\ call'[t].template[1] \in {0, call'[t].env}

\* C6: a step of view or view_async leaves the registry and the environments as
\* they are, and asks the environment it was given for the template, whatever
\* the registry holds.
C6_HelpersLeaveRegistry == [][C6_Step]_vars

C6_Witness ==
    \E t \in Threads :
        /\ call[t].fn = "view"
        /\ services["jinja_environment"] # 0
        /\ call[t].env # services["jinja_environment"]
        /\ call[t].used = call[t].env
        /\ call[t].out.kind = "response"

\* A step of any of the four view functions.
C7_Step ==
    \A t \in Threads :
        (call'[t] # call[t] /\ call'[t].fn \in ViewFns)
            => /\ services' = services
               /\ heap' = heap
               /\ call'[t].failed_with # None
                    => /\ call'[t].out = Raised(call'[t].failed_with)
                       /\ call'[t].pc = "idle"
                       /\ call'[t].gets = 1
                       /\ call'[t].renders <= 1

\* C7: a step of any view function leaves the registry and the environments as
\* they are; when the template engine fails (template not found, render failure)
\* the call ends with that same failure, has no response, and has asked for the
\* template once and rendered at most once.
C7_FailuresPropagate == [][C7_Step]_vars

C7_Witness ==
    \E t \in Threads :
        /\ call[t].fn = "async_view"
        /\ call[t].failed_with = "TypeError"
        /\ call[t].out = Raised("TypeError")
        /\ call[t].renders = 1
        /\ services["jinja_environment"] = call[t].env

====
